---- MODULE Spec2Model ----
(***************************************************************************)
(* State-machine model of src-tauri/src/main.rs: the realtime WebSocket    *)
(* proxy commands (qwen_ws_connect, qwen_ws_send, qwen_ws_close and the    *)
(* forwarding task) and the inbound OSC listener (start_vrc_listener).     *)
(***************************************************************************)
EXTENDS Integers, Sequences, FiniteSets, TLC

(* ------------------------------ bounds -------------------------------- *)
\* number of host threads issuing commands concurrently
NCallers == 2
\* total number of realtime command invocations in one run of Spec
MaxCalls == 3
\* per command, the number of invocations in one run of CommandSpec
MaxConnectCalls == 2
MaxSendCalls == 2
MaxCloseCalls == 1
\* total number of successful handshakes (send-halves ever created)
MaxConn == 2
\* total number of inbound WebSocket frames read by forwarding tasks
MaxInbound == 1
\* in one run of ForwardSpec: the number of send invocations, and the total
\* number of inbound frames read by forwarding tasks
MaxFwdSends == 1
MaxFrames == 4
\* total number of start_vrc_listener invocations in one run
MaxStarts == 3
\* total number of recv_from results delivered to listener threads
MaxDatagrams == 4

Callers == 1..NCallers
Halves == 1..MaxConn
Msgs == {"x", "y"}

\* Option::None for the send-half slot and for a free lock / absent call
None == 0

(* ------------------------- realtime inputs ---------------------------- *)
\* `model` and `api_key` strings, as sequences of character classes:
\* "a" an ordinary character, "SP" a space, "LF" a line feed.
ModelArgs == {<<"a">>, <<"a", "SP">>}
KeyArgs == {<<"k">>, <<"k", "LF">>}

\* url.parse::<http::Uri>(): the fixed template with `model` appended parses
\* unless the interpolated text holds a character a URI may not hold.
UriParses(model) == \A i \in 1..Len(model) : model[i] # "SP"

\* Request::builder()....body(()): fails when the Authorization header value
\* "Bearer <api_key>" holds a control character.
RequestBuilds(key) == \A i \in 1..Len(key) : key[i] # "LF"

\* faulty variant: the URL parse error is not propagated
ConnectPrefix_NoParseCheck(model, key) ==
    IF ~RequestBuilds(key) THEN "BuildFailed" ELSE "Ok"

\* The synchronous prefix of qwen_ws_connect: the error it returns, or "Ok".
ConnectPrefix(model, key) ==
    IF ~UriParses(model) THEN "ParseFailed"
    ELSE IF ~RequestBuilds(key) THEN "BuildFailed"
    ELSE "Ok"

(* ------------------------------ state --------------------------------- *)
VARIABLES
    sender,     \* QwenWsState.sender: None or the stored send-half
    lock,       \* holder of the Mutex around sender, None when free
    nconn,      \* number of send-halves created so far
    pc,         \* position of each caller inside its current command
    cur,        \* id of the call each caller is executing (None when idle)
    held,       \* each caller's local `sender_opt` / `write` half
    wres,       \* each caller's local `result` of the awaited write
    calls,      \* history: one record per command invocation
    takeOrder,  \* history: ids of the calls that obtained a half, in order
    wire,       \* per half: frames the remote peer has received, in order
    fwd,        \* per half: state of the forwarding task owning its read half
    events,     \* realtime events handed to app.emit (result discarded), in order
    ninbound,   \* number of inbound frames consumed so far
    inbox,      \* history, per half: what read.next() yielded, in order
    closeDone,  \* a close that obtained a half has returned, and no connect
                \* has stored a half since that close started
    LISTENER_STARTED, \* the static mut flag
    lpc,        \* position of each caller inside start_vrc_listener
    nstarts,    \* number of start_vrc_listener invocations so far
    threads,    \* listener threads spawned so far: sequence of their states
    port,       \* which listener thread's socket holds 127.0.0.1:9001
    received,   \* per thread history: datagrams whose handling completed
    lastRecv,   \* per thread: outcome class of the last recv_from result
    stoppedAt,  \* history, per thread: nstarts when the thread ended, else None
    mute,       \* vrchat-mute events the host accepted (emit Ok), in order
    ndgrams     \* number of recv_from results delivered so far

wsvars == <<sender, lock, nconn, pc, cur, held, wres, calls, takeOrder,
            wire, fwd, events, ninbound, inbox, closeDone>>
oscvars == <<LISTENER_STARTED, lpc, nstarts, threads, port, received,
             lastRecv, stoppedAt, mute, ndgrams>>
vars == <<wsvars, oscvars>>

(* ------------------------- call bookkeeping --------------------------- *)
InFlight == {cur[p] : p \in {q \in Callers : cur[q] # None}}

\* the command-handling pool hands a new invocation to its first free worker
FreeWorker(p) == pc[p] = "idle" /\ \A q \in Callers : q < p => pc[q] # "idle"

\* the history record of an invocation: `arg` its argument (the message of a
\* send, <<model, api_key>> of a connect), `half` the send-half it created or
\* took out of the slot, `conc` the invocations it overlaps,
\* `occ` the slot when it started, `afterClose` whether it started after a
\* close that obtained a half had returned with no connect stored since,
\* `fresh` whether no connect has stored a half since it started
NewCall(op, arg, res) ==
    [op |-> op, arg |-> arg, res |-> res, half |-> None,
     conc |-> InFlight, occ |-> sender, afterClose |-> closeDone,
     fresh |-> TRUE]

\* a call starts: it becomes concurrent with every call now in flight
Begin(op, arg, res) ==
    LET c == Len(calls) + 1 IN
    calls' = [i \in 1..c |->
                IF i = c THEN NewCall(op, arg, res)
                ELSE IF i \in InFlight
                     THEN [calls[i] EXCEPT !.conc = @ \cup {c}]
                     ELSE calls[i]]

SetRes(c, r) == [calls EXCEPT ![c].res = r]

(* --------------------- realtime frames and events --------------------- *)
TextFrame(call, msg) == [call |-> call, kind |-> "Text", text |-> msg]
CloseFrame(call) == [call |-> call, kind |-> "Close", text |-> ""]

\* what read.next().await can yield to a forwarding task
Inbound == {[kind |-> "Text", text |-> "r1"], [kind |-> "Text", text |-> "r2"],
            [kind |-> "Close", text |-> ""], [kind |-> "Err", text |-> "e"],
            [kind |-> "Other", text |-> ""], [kind |-> "End", text |-> ""]}

\* faulty variant: a read error is swallowed
FwdEmits_NoError(h, f) ==
    IF f.kind = "Text" THEN <<[name |-> "qwen-ws-message", conn |-> h, payload |-> f.text]>>
    ELSE IF f.kind = "Close" THEN <<[name |-> "qwen-ws-close", conn |-> h, payload |-> ""]>>
    ELSE <<>>

\* the match of the forwarding loop: the events one item makes it emit
FwdEmits(h, f) ==
    IF f.kind = "Text" THEN <<[name |-> "qwen-ws-message", conn |-> h, payload |-> f.text]>>
    ELSE IF f.kind = "Close" THEN <<[name |-> "qwen-ws-close", conn |-> h, payload |-> ""]>>
    ELSE IF f.kind = "Err" THEN <<[name |-> "qwen-ws-error", conn |-> h, payload |-> f.text]>>
    ELSE <<>>

\* faulty variant: the loop has no break
FwdStops_OnlyAtEnd(f) == f.kind = "End"

\* whether the forwarding loop ends on this item (break, or the stream's end)
FwdStops(f) == f.kind \in {"Close", "Err", "End"}

(* ------------------- the slot under the take / restore ---------------- *)
\* faulty variant: the slot is read without being emptied
SlotAfterTake_Peek(s) == s

\* sender_lock.take(): what is left in the slot
SlotAfterTake(s) == None

\* faulty variant: the guard outlives its block
GuardAfterBlock_Kept(p) == p

\* the MutexGuard is dropped where its block ends: the lock's holder then
GuardAfterBlock(p) == None

\* faulty variant: a half already in the slot is kept
SlotAfterConnect_KeepOld(old, new) == IF old # None THEN old ELSE new

\* *sender = Some(write): what qwen_ws_connect leaves in the slot
SlotAfterConnect(old, new) == new

\* faulty variant: the half is put back only after a successful write
SlotAfterSend_OnlyOnOk(h, ok) == IF ok THEN h ELSE None

\* faulty variant: the half is never put back
SlotAfterSend_Dropped(h, ok) == None

\* "Put sender back": what qwen_ws_send stores after the awaited write
SlotAfterSend(h, ok) == h

\* the Result qwen_ws_send returns after the write
SendResult(ok) == IF ok THEN "Ok" ELSE "SendFailed"

\* the Result qwen_ws_close returns after the write
CloseResult(ok) == IF ok THEN "Ok" ELSE "CloseFailed"

\* faulty variant: a missing half is not reported
NoHalfResult_Silent == "Ok"

\* the else branch of `if let Some(mut sender) = sender_opt`
NoHalfResult == "NotConnected"

(* ------------------------------ Init ---------------------------------- *)
Init ==
    /\ sender = None
    /\ lock = None
    /\ nconn = 0
    /\ pc = [p \in Callers |-> "idle"]
    /\ cur = [p \in Callers |-> None]
    /\ held = [p \in Callers |-> None]
    /\ wres = [p \in Callers |-> TRUE]
    /\ calls = <<>>
    /\ takeOrder = <<>>
    /\ wire = [h \in Halves |-> <<>>]
    /\ fwd = [h \in Halves |-> "none"]
    /\ events = <<>>
    /\ ninbound = 0
    /\ inbox = [h \in Halves |-> <<>>]
    /\ closeDone = FALSE
    /\ LISTENER_STARTED = FALSE
    /\ lpc = [p \in Callers |-> "idle"]
    /\ nstarts = 0
    /\ threads = <<>>
    /\ port = None
    /\ received = <<>>
    /\ lastRecv = <<>>
    /\ stoppedAt = <<>>
    /\ mute = <<>>
    /\ ndgrams = 0

(* --------------------------- qwen_ws_connect -------------------------- *)
CallConnect(p, model, key) ==
    LET r == ConnectPrefix(model, key) IN
    /\ FreeWorker(p)
    /\ Begin("connect", <<model, key>>, IF r = "Ok" THEN "pending" ELSE r)
    /\ pc' = [pc EXCEPT ![p] = IF r = "Ok" THEN "c_handshake" ELSE "idle"]
    /\ cur' = [cur EXCEPT ![p] = IF r = "Ok" THEN Len(calls) + 1 ELSE None]
    /\ UNCHANGED <<sender, lock, nconn, held, wres, takeOrder, wire, fwd,
                   events, ninbound, inbox, closeDone, oscvars>>

\* connect_async(request).await, then ws_stream.split()
ConnectHandshake(p, ok) ==
    /\ pc[p] = "c_handshake"
    /\ ok => nconn < MaxConn
    /\ IF ok
       THEN /\ nconn' = nconn + 1
            /\ held' = [held EXCEPT ![p] = nconn + 1]
            /\ calls' = [calls EXCEPT ![cur[p]].half = nconn + 1]
            /\ pc' = [pc EXCEPT ![p] = "c_lock"]
            /\ cur' = cur
       ELSE /\ calls' = SetRes(cur[p], "ConnectFailed")
            /\ pc' = [pc EXCEPT ![p] = "idle"]
            /\ cur' = [cur EXCEPT ![p] = None]
            /\ UNCHANGED <<nconn, held>>
    /\ UNCHANGED <<sender, lock, wres, takeOrder, wire, fwd, events,
                   ninbound, inbox, closeDone, oscvars>>

ConnectLock(p) ==
    /\ pc[p] = "c_lock"
    /\ lock = None
    /\ lock' = p
    /\ pc' = [pc EXCEPT ![p] = "c_store"]
    /\ UNCHANGED <<sender, nconn, cur, held, wres, calls, takeOrder, wire,
                   fwd, events, ninbound, inbox, closeDone, oscvars>>

\* *sender = Some(write); the guard is dropped at the end of the block
ConnectStore(p) ==
    /\ pc[p] = "c_store"
    /\ lock = p
    /\ sender' = SlotAfterConnect(sender, held[p])
    /\ held' = [held EXCEPT ![p] = None]
    /\ lock' = GuardAfterBlock(p)
    /\ closeDone' = FALSE
    /\ calls' = [i \in 1..Len(calls) |->
                   [calls[i] EXCEPT !.afterClose = FALSE, !.fresh = FALSE]]
    /\ pc' = [pc EXCEPT ![p] = "c_spawn"]
    /\ UNCHANGED <<nconn, cur, wres, takeOrder, wire, fwd, events,
                   ninbound, inbox, oscvars>>

\* tokio::spawn(forwarding loop); Ok(())
ConnectSpawn(p) ==
    /\ pc[p] = "c_spawn"
    /\ fwd' = [fwd EXCEPT ![calls[cur[p]].half] = "running"]
    /\ calls' = SetRes(cur[p], "Ok")
    /\ pc' = [pc EXCEPT ![p] = "idle"]
    /\ cur' = [cur EXCEPT ![p] = None]
    /\ UNCHANGED <<sender, lock, nconn, held, wres, takeOrder, wire, events,
                   ninbound, inbox, closeDone, oscvars>>

\* one iteration of `while let Some(msg) = read.next().await`
FwdRecv(h, f) ==
    /\ fwd[h] = "running"
    /\ ninbound' = ninbound + 1
    /\ inbox' = [inbox EXCEPT ![h] = Append(@, f)]
    /\ events' = events \o FwdEmits(h, f)
    /\ fwd' = [fwd EXCEPT ![h] = IF FwdStops(f) THEN "done" ELSE "running"]
    /\ UNCHANGED <<sender, lock, nconn, pc, cur, held, wres, calls,
                   takeOrder, wire, closeDone, oscvars>>

(* ----------------------------- qwen_ws_send --------------------------- *)
CallSend(p, msg) ==
    /\ FreeWorker(p)
    /\ Begin("send", <<msg>>, "pending")
    /\ pc' = [pc EXCEPT ![p] = "s_lock"]
    /\ cur' = [cur EXCEPT ![p] = Len(calls) + 1]
    /\ UNCHANGED <<sender, lock, nconn, held, wres, takeOrder, wire, fwd,
                   events, ninbound, inbox, closeDone, oscvars>>

SendLock(p) ==
    /\ pc[p] = "s_lock"
    /\ lock = None
    /\ lock' = p
    /\ pc' = [pc EXCEPT ![p] = "s_take"]
    /\ UNCHANGED <<sender, nconn, cur, held, wres, calls, takeOrder, wire,
                   fwd, events, ninbound, inbox, closeDone, oscvars>>

\* sender_lock.take(), guard dropped; then the `if let Some` test
SendTake(p) ==
    /\ pc[p] = "s_take"
    /\ lock = p
    /\ held' = [held EXCEPT ![p] = sender]
    /\ sender' = SlotAfterTake(sender)
    /\ lock' = GuardAfterBlock(p)
    /\ IF sender # None
       THEN /\ calls' = [calls EXCEPT ![cur[p]].half = sender]
            /\ takeOrder' = Append(takeOrder, cur[p])
            /\ pc' = [pc EXCEPT ![p] = "s_write"]
            /\ cur' = cur
       ELSE /\ calls' = SetRes(cur[p], NoHalfResult)
            /\ takeOrder' = takeOrder
            /\ pc' = [pc EXCEPT ![p] = "idle"]
            /\ cur' = [cur EXCEPT ![p] = None]
    /\ UNCHANGED <<nconn, wres, wire, fwd, events, ninbound, inbox, closeDone, oscvars>>

\* sender.send(Message::Text(message)).await
SendWrite(p, ok) ==
    /\ pc[p] = "s_write"
    /\ wres' = [wres EXCEPT ![p] = ok]
    /\ wire' = IF ok
               THEN [wire EXCEPT ![held[p]] = Append(@, TextFrame(cur[p], calls[cur[p]].arg[1]))]
               ELSE wire
    /\ pc' = [pc EXCEPT ![p] = "s_relock"]
    /\ UNCHANGED <<sender, lock, nconn, cur, held, calls, takeOrder, fwd,
                   events, ninbound, inbox, closeDone, oscvars>>

SendRelock(p) ==
    /\ pc[p] = "s_relock"
    /\ lock = None
    /\ lock' = p
    /\ pc' = [pc EXCEPT ![p] = "s_restore"]
    /\ UNCHANGED <<sender, nconn, cur, held, wres, calls, takeOrder, wire,
                   fwd, events, ninbound, inbox, closeDone, oscvars>>

\* *sender_lock = Some(sender); result
SendRestore(p) ==
    /\ pc[p] = "s_restore"
    /\ lock = p
    /\ sender' = SlotAfterSend(held[p], wres[p])
    /\ held' = [held EXCEPT ![p] = None]
    /\ lock' = GuardAfterBlock(p)
    /\ calls' = SetRes(cur[p], SendResult(wres[p]))
    /\ pc' = [pc EXCEPT ![p] = "idle"]
    /\ cur' = [cur EXCEPT ![p] = None]
    /\ UNCHANGED <<nconn, wres, takeOrder, wire, fwd, events, ninbound, inbox,
                   closeDone, oscvars>>

(* ----------------------------- qwen_ws_close -------------------------- *)
CallClose(p) ==
    /\ FreeWorker(p)
    /\ Begin("close", <<>>, "pending")
    /\ pc' = [pc EXCEPT ![p] = "x_lock"]
    /\ cur' = [cur EXCEPT ![p] = Len(calls) + 1]
    /\ UNCHANGED <<sender, lock, nconn, held, wres, takeOrder, wire, fwd,
                   events, ninbound, inbox, closeDone, oscvars>>

CloseLock(p) ==
    /\ pc[p] = "x_lock"
    /\ lock = None
    /\ lock' = p
    /\ pc' = [pc EXCEPT ![p] = "x_take"]
    /\ UNCHANGED <<sender, nconn, cur, held, wres, calls, takeOrder, wire,
                   fwd, events, ninbound, inbox, closeDone, oscvars>>

CloseTake(p) ==
    /\ pc[p] = "x_take"
    /\ lock = p
    /\ held' = [held EXCEPT ![p] = sender]
    /\ sender' = SlotAfterTake(sender)
    /\ lock' = GuardAfterBlock(p)
    /\ IF sender # None
       THEN /\ calls' = [calls EXCEPT ![cur[p]].half = sender]
            /\ takeOrder' = Append(takeOrder, cur[p])
            /\ pc' = [pc EXCEPT ![p] = "x_write"]
            /\ cur' = cur
       ELSE /\ calls' = SetRes(cur[p], NoHalfResult)
            /\ takeOrder' = takeOrder
            /\ pc' = [pc EXCEPT ![p] = "idle"]
            /\ cur' = [cur EXCEPT ![p] = None]
    /\ UNCHANGED <<nconn, wres, wire, fwd, events, ninbound, inbox, closeDone, oscvars>>

\* sender.send(Message::Close(None)).await; the half is dropped on return
CloseWrite(p, ok) ==
    /\ pc[p] = "x_write"
    /\ wire' = IF ok
               THEN [wire EXCEPT ![held[p]] = Append(@, CloseFrame(cur[p]))]
               ELSE wire
    /\ held' = [held EXCEPT ![p] = None]
    /\ calls' = SetRes(cur[p], CloseResult(ok))
    /\ closeDone' = (closeDone \/ calls[cur[p]].fresh)
    /\ pc' = [pc EXCEPT ![p] = "idle"]
    /\ cur' = [cur EXCEPT ![p] = None]
    /\ UNCHANGED <<sender, lock, nconn, wres, takeOrder, fwd, events,
                   ninbound, inbox, oscvars>>

(* ------------------- the realtime connection manager ------------------ *)
\* one step of a qwen_ws_connect call that is already running
ConnectStep ==
    \/ \E p \in Callers, ok \in BOOLEAN : ConnectHandshake(p, ok)
    \/ \E p \in Callers : ConnectLock(p)
    \/ \E p \in Callers : ConnectStore(p)
    \/ \E p \in Callers : ConnectSpawn(p)

\* one step of a qwen_ws_send call that is already running
SendStep ==
    \/ \E p \in Callers : SendLock(p)
    \/ \E p \in Callers : SendTake(p)
    \/ \E p \in Callers, ok \in BOOLEAN : SendWrite(p, ok)
    \/ \E p \in Callers : SendRelock(p)
    \/ \E p \in Callers : SendRestore(p)

\* one step of a qwen_ws_close call that is already running
CloseStep ==
    \/ \E p \in Callers : CloseLock(p)
    \/ \E p \in Callers : CloseTake(p)
    \/ \E p \in Callers, ok \in BOOLEAN : CloseWrite(p, ok)

\* one step of a command that is already running
CommandStep == ConnectStep \/ SendStep \/ CloseStep

\* the host invokes a command
Invoke ==
    \/ \E p \in Callers, m \in ModelArgs, k \in KeyArgs : CallConnect(p, m, k)
    \/ \E p \in Callers, msg \in Msgs : CallSend(p, msg)
    \/ \E p \in Callers : CallClose(p)

\* a forwarding task reads one item from its receive-half
Forward == \E h \in Halves, f \in Inbound : FwdRecv(h, f)

\* commands and forwarding tasks together
Next ==
    \/ Len(calls) < MaxCalls /\ Invoke
    \/ CommandStep
    \/ ninbound < MaxInbound /\ Forward

Spec == Init /\ [][Next]_vars

\* the commands alone, in longer runs (forwarding tasks never touch the slot)
NumOp(op) == Cardinality({c \in 1..Len(calls) : calls[c].op = op})

CommandNext ==
    \/ /\ NumOp("connect") < MaxConnectCalls
       /\ \E p \in Callers, m \in ModelArgs, k \in KeyArgs : CallConnect(p, m, k)
    \/ /\ NumOp("send") < MaxSendCalls
       /\ \E p \in Callers, msg \in Msgs : CallSend(p, msg)
    \/ /\ NumOp("close") < MaxCloseCalls
       /\ \E p \in Callers : CallClose(p)
    \/ CommandStep

CommandSpec == Init /\ [][CommandNext]_vars

\* the forwarding tasks in longer runs: connects, one send, and several
\* inbound frames
ForwardNext ==
    \/ /\ NumOp("connect") < MaxConnectCalls
       /\ \E p \in Callers, m \in ModelArgs, k \in KeyArgs : CallConnect(p, m, k)
    \/ /\ NumOp("send") < MaxFwdSends
       /\ \E p \in Callers, msg \in Msgs : CallSend(p, msg)
    \/ ConnectStep
    \/ SendStep
    \/ ninbound < MaxFrames /\ Forward

ForwardSpec == Init /\ [][ForwardNext]_vars

(* ------------------------- inbound OSC listener ----------------------- *)
MuteSelfAddr == "/avatar/parameters/MuteSelf"

\* A datagram as the fields of the OSC wire format: the leading string
\* (an address pattern, "#bundle", or something else), the type tags after
\* the comma, the integer payloads, and a bundle's elements.
Dgram(head, tags, ints, elems) ==
    [head |-> head, tags |-> tags, ints |-> ints, elems |-> elems]

MuteTrue == Dgram(MuteSelfAddr, <<"T">>, <<>>, <<>>)
MuteFalse == Dgram(MuteSelfAddr, <<"F">>, <<>>, <<>>)
MuteInt == Dgram(MuteSelfAddr, <<"i">>, <<1>>, <<>>)
MuteIntBool == Dgram(MuteSelfAddr, <<"i", "T">>, <<1>>, <<>>)
MuteNoArgs == Dgram(MuteSelfAddr, <<>>, <<>>, <<>>)
OtherTrue == Dgram("/avatar/parameters/Viseme", <<"T">>, <<>>, <<>>)
BundleOfMute == Dgram("#bundle", <<>>, <<>>, <<MuteTrue>>)
Truncated == Dgram(MuteSelfAddr, <<"i">>, <<>>, <<>>)
Garbage == Dgram("garbage", <<>>, <<>>, <<>>)

Datagrams == {MuteTrue, MuteFalse, MuteInt, MuteIntBool, MuteNoArgs, OtherTrue,
              BundleOfMute, Truncated, Garbage}

Addresses == {MuteSelfAddr, "/avatar/parameters/Viseme"}

BoolArg(b) == [t |-> "Bool", b |-> b, i |-> 0]
IntArg(n) == [t |-> "Int", b |-> FALSE, i |-> n]

\* the arguments named by a type tag string, or failure when the payload
\* is shorter than the tags require
RECURSIVE DecodeArgs(_, _)
DecodeArgs(tags, ints) ==
    IF tags = <<>> THEN [ok |-> TRUE, args |-> <<>>]
    ELSE IF Head(tags) = "i" /\ ints = <<>> THEN [ok |-> FALSE, args |-> <<>>]
    ELSE LET rest == DecodeArgs(Tail(tags), IF Head(tags) = "i" THEN Tail(ints) ELSE ints)
             arg == IF Head(tags) = "T" THEN BoolArg(TRUE)
                    ELSE IF Head(tags) = "F" THEN BoolArg(FALSE)
                    ELSE IntArg(Head(ints))
         IN [ok |-> rest.ok, args |-> <<arg>> \o rest.args]

\* rosc::decoder::decode_udp: Ok(packet) or Err
decode_udp(d) ==
    IF d.head = "#bundle"
    THEN [ok |-> TRUE, type |-> "Bundle", addr |-> "", args |-> <<>>]
    ELSE IF d.head \in Addresses
    THEN LET a == DecodeArgs(d.tags, d.ints) IN
         [ok |-> a.ok, type |-> "Message", addr |-> d.head, args |-> a.args]
    ELSE [ok |-> FALSE, type |-> "Message", addr |-> "", args |-> <<>>]

\* faulty variant: the address is not compared
AddrOfInterest_Any(addr) == TRUE

\* msg.addr.as_str() == "/avatar/parameters/MuteSelf"
AddrOfInterest(addr) == addr = MuteSelfAddr

\* OscType::bool(): Some(b) for a Bool argument, None for any other
IsSomeBool(arg) == arg.t = "Bool"

\* One iteration of the receive loop after recv_from returned Ok, with
\* `emitOk` telling whether app.emit returns Ok: whether the thread panics
\* (an unwrap on a decode Err, on a missing first argument, or on an emit
\* Err), which events reach the host, and whether an emit failed.
HandleDatagram(d, emitOk) ==
    LET r == decode_udp(d) IN
    IF ~r.ok THEN [panic |-> TRUE, emits |-> <<>>, emitErr |-> FALSE]
    ELSE IF r.type = "Message" /\ AddrOfInterest(r.addr)
    THEN IF r.args = <<>> THEN [panic |-> TRUE, emits |-> <<>>, emitErr |-> FALSE]
         ELSE IF IsSomeBool(r.args[1])
         THEN IF emitOk
              THEN [panic |-> FALSE, emits |-> <<r.args[1].b>>, emitErr |-> FALSE]
              ELSE [panic |-> TRUE, emits |-> <<>>, emitErr |-> TRUE]
         ELSE [panic |-> FALSE, emits |-> <<>>, emitErr |-> FALSE]
    ELSE [panic |-> FALSE, emits |-> <<>>, emitErr |-> FALSE]

\* faulty variant: the flag is not tested
AlreadyStarted_Never(flag) == FALSE

\* the test `if LISTENER_STARTED { return; }`
AlreadyStarted(flag) == flag

\* start_vrc_listener is a synchronous command (`fn`, not `async fn`): the
\* host runs such commands one at a time, each to its return, on one thread
SerialStarter(p) == \A q \in Callers : lpc[q] = "idle" /\ p <= q

\* the premise "called N times concurrently": invocations overlap, each on
\* the first free thread; nothing in start_vrc_listener synchronises them
ConcurrentStarter(p) == lpc[p] = "idle" /\ \A q \in Callers : q < p => lpc[q] # "idle"

\* start_vrc_listener is entered and reads the flag
StartCheck(p) ==
    /\ lpc[p] = "idle"
    /\ nstarts' = nstarts + 1
    /\ lpc' = [lpc EXCEPT ![p] = IF AlreadyStarted(LISTENER_STARTED) THEN "idle" ELSE "set"]
    /\ UNCHANGED <<LISTENER_STARTED, threads, port, received, lastRecv,
                   stoppedAt, mute, ndgrams, wsvars>>

\* LISTENER_STARTED = true
StartSet(p) ==
    /\ lpc[p] = "set"
    /\ LISTENER_STARTED' = TRUE
    /\ lpc' = [lpc EXCEPT ![p] = "spawn"]
    /\ UNCHANGED <<nstarts, threads, port, received, lastRecv, stoppedAt, mute,
                   ndgrams, wsvars>>

\* thread::spawn(...), then the command returns
StartSpawn(p) ==
    /\ lpc[p] = "spawn"
    /\ threads' = Append(threads, "spawned")
    /\ lastRecv' = Append(lastRecv, "none")
    /\ stoppedAt' = Append(stoppedAt, None)
    /\ lpc' = [lpc EXCEPT ![p] = "idle"]
    /\ UNCHANGED <<LISTENER_STARTED, nstarts, port, received, mute, ndgrams, wsvars>>

\* UdpSocket::bind("127.0.0.1:9001"): fails while another socket of this
\* process holds the port, or when `free` says another process does
ListenerBind(t, free) ==
    /\ threads[t] = "spawned"
    /\ IF port = None /\ free
       THEN /\ threads' = [threads EXCEPT ![t] = "loop"]
            /\ port' = t
            /\ stoppedAt' = stoppedAt
       ELSE /\ threads' = [threads EXCEPT ![t] = "bind_failed"]
            /\ port' = port
            /\ stoppedAt' = [stoppedAt EXCEPT ![t] = nstarts]
    /\ UNCHANGED <<LISTENER_STARTED, lpc, nstarts, received, lastRecv, mute,
                   ndgrams, wsvars>>

\* sock.recv_from returns Ok with datagram d, and the loop body runs;
\* emitOk is the outcome of app.emit, should the body reach it
ListenerRecv(t, d, emitOk) ==
    LET out == HandleDatagram(d, emitOk) IN
    /\ threads[t] = "loop"
    /\ ndgrams' = ndgrams + 1
    /\ received' = Append(received, d)
    /\ lastRecv' = [lastRecv EXCEPT ![t] = IF ~decode_udp(d).ok THEN "malformed"
                                            ELSE IF out.emitErr THEN "emit_failed"
                                            ELSE "decoded"]
    /\ mute' = mute \o out.emits
    /\ threads' = [threads EXCEPT ![t] = IF out.panic THEN "panicked" ELSE "loop"]
    /\ port' = IF out.panic THEN None ELSE port
    /\ stoppedAt' = IF out.panic THEN [stoppedAt EXCEPT ![t] = nstarts] ELSE stoppedAt
    /\ UNCHANGED <<LISTENER_STARTED, lpc, nstarts, wsvars>>

\* sock.recv_from returns Err: break, the thread ends and drops the socket
ListenerRecvErr(t) ==
    /\ threads[t] = "loop"
    /\ ndgrams' = ndgrams + 1
    /\ lastRecv' = [lastRecv EXCEPT ![t] = "error"]
    /\ threads' = [threads EXCEPT ![t] = "recv_failed"]
    /\ port' = None
    /\ stoppedAt' = [stoppedAt EXCEPT ![t] = nstarts]
    /\ UNCHANGED <<LISTENER_STARTED, lpc, nstarts, received, mute, wsvars>>

\* one step of a start_vrc_listener call that is already running
StartStep ==
    \/ \E p \in Callers : StartSet(p)
    \/ \E p \in Callers : StartSpawn(p)

\* one step of a listener thread
ListenerThreadStep ==
    \/ \E t \in 1..Len(threads), free \in BOOLEAN : ListenerBind(t, free)
    \/ /\ ndgrams < MaxDatagrams
       /\ \E t \in 1..Len(threads), d \in Datagrams, emitOk \in BOOLEAN :
             ListenerRecv(t, d, emitOk)
    \/ ndgrams < MaxDatagrams /\ \E t \in 1..Len(threads) : ListenerRecvErr(t)

\* the listener as the host drives it: one start_vrc_listener at a time
ListenerNext ==
    \/ nstarts < MaxStarts /\ \E p \in Callers : SerialStarter(p) /\ StartCheck(p)
    \/ StartStep
    \/ ListenerThreadStep

ListenerSpec == Init /\ [][ListenerNext]_vars

\* the listener under overlapping start_vrc_listener calls
ConcurrentStartNext ==
    \/ nstarts < MaxStarts /\ \E p \in Callers : ConcurrentStarter(p) /\ StartCheck(p)
    \/ StartStep
    \/ ListenerThreadStep

ConcurrentStartSpec == Init /\ [][ConcurrentStartNext]_vars

(* ====================================================================== *)
(*                               Properties                               *)
(* ====================================================================== *)
CallIds == 1..Len(calls)
Sends == {c \in CallIds : calls[c].op = "send"}
Closes == {c \in CallIds : calls[c].op = "close"}
Connects == {c \in CallIds : calls[c].op = "connect"}
Done(c) == calls[c].res # "pending"
ConnectErrors == {"ParseFailed", "BuildFailed", "ConnectFailed"}

\* the frames call c has put on the wire of half h
FramesOf(h, c) == {i \in 1..Len(wire[h]) : wire[h][i].call = c}
WroteFrame(c) == \E h \in Halves : FramesOf(h, c) # {}
FrameIndex(h, c) == CHOOSE i \in FramesOf(h, c) : TRUE
TakeIndex(c) == CHOOSE i \in 1..Len(takeOrder) : takeOrder[i] = c

\* C1: when the slot holds no send-half, the take step of a send or close
\* call ends the call with NotConnected, writes no frame and leaves the
\* slot empty.
C1_EmptySlotFailsNotConnected ==
    [][\A p \in Callers :
         (pc[p] \in {"s_take", "x_take"} /\ pc'[p] # pc[p] /\ sender = None)
         => /\ calls'[cur[p]].res = "NotConnected"
            /\ pc'[p] = "idle"
            /\ held'[p] = None
            /\ wire' = wire
            /\ sender' = None]_vars

\* a send and a close have both failed with NotConnected on the empty slot
C1_Witness ==
    /\ sender = None
    /\ nconn = 0
    /\ \E s \in Sends : calls[s].res = "NotConnected" /\ ~WroteFrame(s)
    /\ \E c \in Closes : calls[c].res = "NotConnected" /\ ~WroteFrame(c)

\* C3: on one send-half, a send that returned Ok before another send started
\* has its frame before the other's, and the frames on the wire are in the
\* order in which the writing calls took the half.
C3_FramesInCallOrder ==
    /\ \A x \in Sends, y \in Sends :
         ( /\ x < y /\ x \notin calls[y].conc
           /\ calls[x].res = "Ok" /\ calls[y].res = "Ok"
           /\ calls[x].half = calls[y].half )
         => FrameIndex(calls[x].half, x) < FrameIndex(calls[y].half, y)
    /\ \A h \in Halves :
         [i \in 1..Len(wire[h]) |-> wire[h][i].call]
           = SelectSeq(takeOrder, LAMBDA c : calls[c].half = h /\ FramesOf(h, c) # {})

\* send("x") returned Ok, then send("y") was started and returned Ok, and the
\* peer has received "x" then "y"
C3_Witness ==
    \E x \in Sends, y \in Sends, h \in Halves :
        /\ x < y /\ x \notin calls[y].conc
        /\ calls[x].res = "Ok" /\ calls[y].res = "Ok"
        /\ wire[h] = <<TextFrame(x, "x"), TextFrame(y, "y")>>

\* C4: a send that obtained a half stores that same half back when it
\* returns, whatever the write's outcome; so a send issued right after a
\* failed one, with nothing else running, obtains the same half and does not
\* fail with NotConnected.
C4_SendPutsHalfBack ==
    /\ [][\A p \in Callers :
            (pc[p] = "s_restore" /\ pc'[p] = "idle")
            => (calls[cur[p]].half # None /\ sender' = calls[cur[p]].half)]_vars
    /\ [](\A x \in Sends, y \in Sends :
            ( /\ y = x + 1 /\ calls[x].conc = {} /\ calls[y].conc = {}
              /\ calls[x].res = "SendFailed" /\ Done(y) )
            => (calls[y].half = calls[x].half /\ calls[y].res # "NotConnected"))

\* a send failed in its write, and the next send wrote on the same half
C4_Witness ==
    \E x \in Sends, y \in Sends :
        /\ y = x + 1 /\ calls[x].conc = {} /\ calls[y].conc = {}
        /\ calls[x].res = "SendFailed" /\ calls[y].res = "Ok"
        /\ calls[y].half = calls[x].half
        /\ FramesOf(calls[y].half, y) # {}
        /\ sender = calls[x].half

\* C5: a connect whose URL does not parse, whose request does not build or
\* whose handshake fails returns that error and creates no send-half; the step
\* on which it fails changes neither the slot nor the forwarding tasks nor the
\* events; every forwarding task, stored half and event belongs to a connect
\* that did not fail.
C5_FailedConnectChangesNothing ==
    /\ [](\A c \in Connects :
            ( \/ ~UriParses(calls[c].arg[1])
              \/ ~RequestBuilds(calls[c].arg[2])
              \/ calls[c].res = "ConnectFailed" )
            => (calls[c].res \in ConnectErrors /\ calls[c].half = None))
    /\ [](\A h \in Halves :
            ( \/ fwd[h] # "none"
              \/ sender = h
              \/ \E i \in 1..Len(events) : events[i].conn = h )
            => \E c \in Connects :
                  calls[c].half = h /\ calls[c].res \notin ConnectErrors)
    /\ [][\A c \in 1..Len(calls') :
            ( /\ calls'[c].op = "connect"
              /\ calls'[c].res \in ConnectErrors
              /\ (c > Len(calls) \/ calls[c].res = "pending") )
            => UNCHANGED <<sender, lock, nconn, wire, fwd, events>>]_vars

\* a handshake failed while the slot held a half, which is still in place,
\* and another connect failed before its handshake
C5_Witness ==
    /\ \E c \in Connects :
          /\ calls[c].res = "ConnectFailed"
          /\ calls[c].occ # None
          /\ sender = calls[c].occ
    /\ \E c \in Connects : calls[c].res \in {"ParseFailed", "BuildFailed"}
    /\ Cardinality({h \in Halves : fwd[h] # "none"}) = 1

\* C2: a send that started after a close which obtained a send-half had
\* returned, with no connect storing a half in between, never obtains a
\* send-half: it fails with NotConnected.
C2_SendAfterCloseFails ==
    \A s \in Sends :
        calls[s].afterClose
        => (calls[s].half = None /\ calls[s].res \in {"pending", "NotConnected"})

\* the listener threads that have bound a socket and entered the receive loop
EverBound == {t \in 1..Len(threads) : threads[t] \in {"loop", "recv_failed", "panicked"}}

\* C6: however the start_vrc_listener calls interleave, no second socket is
\* ever bound to the port and no second receive loop is ever entered.
C6_ExactlyOneListener == Cardinality(EverBound) <= 1

\* what the spec asks of one received datagram: a well-formed message to
\* MuteSelf whose first type tag is a boolean yields that boolean
MuteEventsFor(d) ==
    IF /\ d.head = MuteSelfAddr
       /\ d.tags # <<>>
       /\ d.tags[1] \in {"T", "F"}
       /\ Cardinality({i \in 1..Len(d.tags) : d.tags[i] = "i"}) <= Len(d.ints)
    THEN <<d.tags[1] = "T">>
    ELSE <<>>

RECURSIVE MuteEventsOf(_)
MuteEventsOf(ds) ==
    IF ds = <<>> THEN <<>> ELSE MuteEventsFor(Head(ds)) \o MuteEventsOf(Tail(ds))

C8_Race(s, c) ==
    /\ s \in Sends /\ c \in Closes
    /\ Done(s) /\ Done(c)
    /\ calls[s].conc = {c} /\ calls[c].conc = {s}
    /\ calls[IF s < c THEN s ELSE c].occ # None

C8_LoserClean(x) ==
    calls[x].half = None => (calls[x].res = "NotConnected" /\ ~WroteFrame(x))

\* C8 as claimed: exactly one of the two obtains the half, the other fails
\* with NotConnected and writes nothing.
C8_ExactlyOneObtains ==
    \A s \in CallIds, c \in CallIds :
        C8_Race(s, c)
        => /\ (calls[s].half # None) # (calls[c].half # None)
           /\ C8_LoserClean(s) /\ C8_LoserClean(c)

\* C8 amended: at least one of the two obtains the half; one that does not
\* fails with NotConnected and writes nothing; both obtain it only when the
\* send took it first (and so had put it back before the close took it), and
\* then the Close frame is not written before the send's frame.
C8_AtLeastOneObtains ==
    \A s \in CallIds, c \in CallIds :
        C8_Race(s, c)
        => /\ (calls[s].half # None \/ calls[c].half # None)
           /\ C8_LoserClean(s) /\ C8_LoserClean(c)
           /\ (calls[s].half # None /\ calls[c].half # None)
              => /\ calls[s].half = calls[c].half
                 /\ TakeIndex(s) < TakeIndex(c)
                 /\ \A i \in FramesOf(calls[s].half, s), j \in FramesOf(calls[c].half, c) : i < j

\* the send and the close were issued together, the send took the half first
\* and restored it, the close then took it: the peer got the text, then Close
C8_Witness ==
    \E s \in CallIds, c \in CallIds :
        /\ C8_Race(s, c)
        /\ c < s
        /\ calls[s].res = "Ok" /\ calls[c].res = "Ok"
        /\ wire[calls[s].half] = <<TextFrame(s, calls[s].arg[1]), CloseFrame(c)>>
        /\ sender = None

\* the connection of half h has met a close or a fatal read or write error
C9_Terminal(h) ==
    \/ \E i \in 1..Len(events) :
          events[i].conn = h /\ events[i].name \in {"qwen-ws-close", "qwen-ws-error"}
    \/ \E s \in Sends : calls[s].half = h /\ calls[s].res = "SendFailed"
    \/ \E c \in Closes : calls[c].half = h /\ Done(c)

\* C9 as claimed: once the forwarding task has seen a close frame or a read
\* error, a send's write has failed, or a close has returned, the slot no
\* longer holds that connection's send-half.
C9_EmptiedOnFatalError == \A h \in Halves : C9_Terminal(h) => sender # h

\* C9 amended: only a close empties the slot for good. Once a close that
\* obtained a half has returned, that half is never in the slot nor in any
\* call's hands again; a step of a forwarding task (a close frame or a read
\* error included) leaves the slot unchanged; a send whose write failed puts
\* its half back on return.
C9_OnlyCloseEmpties ==
    /\ [](\A c \in Closes :
            (Done(c) /\ calls[c].half # None)
            => (sender # calls[c].half /\ \A p \in Callers : held[p] # calls[c].half))
    /\ [][(ninbound' # ninbound) => (sender' = sender /\ held' = held)]_vars
    /\ [][\A p \in Callers :
            (pc[p] = "s_restore" /\ pc'[p] = "idle" /\ ~wres[p])
            => (held[p] # None /\ sender' = held[p])]_vars

\* a connection whose forwarding task ended on a read error and on which a
\* send's write failed still has its half in the slot
C9_Witness ==
    \E h \in Halves :
        /\ sender = h
        /\ fwd[h] = "done"
        /\ \E i \in 1..Len(events) : events[i].conn = h /\ events[i].name = "qwen-ws-error"
        /\ \E s \in Sends : calls[s].half = h /\ calls[s].res = "SendFailed"

\* C10: a datagram that fails to decode does not stop the receive loop of the
\* thread that received it.
C10_MalformedDatagramNotFatal ==
    \A t \in 1..Len(threads) : lastRecv[t] = "malformed" => threads[t] = "loop"

\* the callers whose local variable owns send-half h
Holders(h) == {p \in Callers : held[p] = h}

\* C11: every send-half has at most one holder, the slot or one call's local
\* variable, never both and never two calls; so no two calls are ever at
\* their awaited write with the same half, and a send or close that is past
\* its take owns a half.
C11_SingleHolder ==
    /\ \A h \in Halves :
          Cardinality(Holders(h)) + (IF sender = h THEN 1 ELSE 0) <= 1
    /\ \A p \in Callers, q \in Callers :
          (p # q /\ pc[p] \in {"s_write", "x_write"} /\ pc[q] \in {"s_write", "x_write"})
          => held[p] # held[q]
    /\ \A p \in Callers :
          pc[p] \in {"s_write", "s_relock", "s_restore", "x_write"} => held[p] \in 1..nconn

\* a send is at its awaited write with the half checked out of the slot,
\* and a send issued concurrently has found the slot empty
C11_Witness ==
    \E p \in Callers, s \in Sends :
        /\ pc[p] = "s_write" /\ held[p] # None /\ sender = None
        /\ s \in calls[cur[p]].conc
        /\ calls[s].res = "NotConnected"

\* the events of connection h, in the order they were emitted
EventsOf(h) == SelectSeq(events, LAMBDA e : e.conn = h)

\* the event a received frame calls for: a message per text frame, a close
\* for a close frame, an error for a read error, none for any other kind
RECURSIVE FrameEvents(_, _)
FrameEvents(h, frames) ==
    IF frames = <<>> THEN <<>>
    ELSE LET f == Head(frames)
             e == IF f.kind = "Text" THEN <<[name |-> "qwen-ws-message", conn |-> h, payload |-> f.text]>>
                  ELSE IF f.kind = "Close" THEN <<[name |-> "qwen-ws-close", conn |-> h, payload |-> ""]>>
                  ELSE IF f.kind = "Err" THEN <<[name |-> "qwen-ws-error", conn |-> h, payload |-> f.text]>>
                  ELSE <<>>
         IN e \o FrameEvents(h, Tail(frames))

\* C12: the events of each connection are, in arrival order, one message
\* event per text frame, a close event for a close frame and an error event
\* for a read error, nothing for other frames; the task has terminated exactly
\* when the last item it read was a close frame, a read error or the end of
\* the stream, and it read nothing after such an item.
C12_ForwarderEvents ==
    \A h \in Halves :
        /\ EventsOf(h) = FrameEvents(h, inbox[h])
        /\ \A i \in 1..(Len(inbox[h]) - 1) : inbox[h][i].kind \in {"Text", "Other"}
        /\ (fwd[h] = "done")
           <=> (inbox[h] # <<>> /\ inbox[h][Len(inbox[h])].kind \in {"Close", "Err", "End"})
        /\ inbox[h] # <<>> => fwd[h] \in {"running", "done"}

\* one task read two text frames, a frame of another kind and a close frame:
\* two messages in arrival order, then the close event, and it has terminated
C12_Witness ==
    \E h \in Halves :
        /\ [i \in 1..Len(inbox[h]) |-> inbox[h][i].kind] = <<"Text", "Other", "Text", "Close">>
        /\ inbox[h][1].text = "r2" /\ inbox[h][3].text = "r1"
        /\ [i \in 1..Len(events) |-> events[i].name]
             = <<"qwen-ws-message", "qwen-ws-message", "qwen-ws-close">>
        /\ events[1].payload = "r2" /\ events[2].payload = "r1"
        /\ fwd[h] = "done"

\* C13: the store step of a connect puts the new half into the slot whatever
\* the slot held, and writes no frame on any connection; no step of a connect
\* call changes another connection's forwarding task, events or inbound
\* frames; a forwarding task stops running only on a step in which it reads
\* a close frame, a read error or the end of its own stream.
C13_ConnectSupersedes ==
    /\ [][\A p \in Callers :
            (pc[p] = "c_store" /\ pc'[p] = "c_spawn")
            => /\ sender' = calls[cur[p]].half
               /\ sender' # sender
               /\ UNCHANGED <<wire, fwd, events, inbox>>]_vars
    /\ [][\A p \in Callers :
            (pc[p] \in {"c_handshake", "c_lock", "c_store", "c_spawn"} /\ pc'[p] # pc[p])
            => /\ UNCHANGED <<wire, events, inbox>>
               /\ \A h \in Halves : fwd[h] # "none" => fwd'[h] = fwd[h]]_vars
    /\ [][\A h \in Halves :
            (fwd[h] = "running" /\ fwd'[h] # "running")
            => /\ Len(inbox'[h]) = Len(inbox[h]) + 1
               /\ inbox'[h][Len(inbox'[h])].kind \in {"Close", "Err", "End"}]_vars

\* a second connect replaced the first one's half in the slot; no Close frame
\* was written on the first connection; both forwarding tasks are live, and
\* the first one emitted a message after the second one did
C13_Witness ==
    /\ sender = 2
    /\ \E c \in Connects : calls[c].res = "Ok" /\ calls[c].half = 2 /\ calls[c].occ = 1
    /\ wire[1] = <<>>
    /\ fwd[1] = "running" /\ fwd[2] = "running"
    /\ Len(events) = 2
    /\ events[1].conn = 2 /\ events[2].conn = 1
    /\ events[2].name = "qwen-ws-message"

\* C14: a listener thread whose bind failed never enters the receive loop;
\* from then on the flag is set, no vrchat-mute event has been or is emitted,
\* no datagram is received, no other thread exists, and every
\* start_vrc_listener call returns at the flag test without spawning a thread.
C14_BindFailureIsFinal ==
    /\ [](\A t \in 1..Len(threads) :
            threads[t] = "bind_failed"
            => /\ LISTENER_STARTED
               /\ mute = <<>>
               /\ received = <<>>
               /\ Len(threads) = 1)
    /\ [][(\E t \in 1..Len(threads) : threads[t] = "bind_failed")
          => /\ threads' = threads
             /\ port' = port
             /\ \A p \in Callers : lpc'[p] = "idle"]_vars

\* the listener's bind failed, and a start_vrc_listener call made after that
\* has returned: still one thread, ended, the flag set and no event
C14_Witness ==
    /\ threads = <<"bind_failed">>
    /\ nstarts > stoppedAt[1]
    /\ \A p \in Callers : lpc[p] = "idle"
    /\ LISTENER_STARTED
    /\ mute = <<>>

\* C15: once the listener's recv_from has returned an error, no vrchat-mute
\* event is emitted and no datagram is received any more, no receive loop
\* exists, and every start_vrc_listener call returns at the flag test without
\* spawning a thread.
C15_RecvErrorIsFinal ==
    /\ [](\A t \in 1..Len(threads) :
            threads[t] = "recv_failed"
            => /\ LISTENER_STARTED
               /\ \A u \in 1..Len(threads) : threads[u] # "loop")
    /\ [][(\E t \in 1..Len(threads) : threads[t] = "recv_failed")
          => /\ mute' = mute
             /\ received' = received
             /\ threads' = threads
             /\ \A p \in Callers : lpc'[p] = "idle"]_vars

\* the listener forwarded an event, then its recv_from failed, and a
\* start_vrc_listener call made after that has returned: the events are the
\* ones emitted before the error and the only thread has ended
C15_Witness ==
    /\ threads = <<"recv_failed">>
    /\ nstarts > stoppedAt[1]
    /\ \A p \in Callers : lpc[p] = "idle"
    /\ received = <<MuteTrue>>
    /\ mute = <<TRUE>>

\* C16 as claimed: in every state where some call is awaiting the handshake
\* or a frame write, the lock is free.
C16_LockFreeWhileAwaiting ==
    (\E p \in Callers : pc[p] \in {"c_handshake", "s_write", "x_write"})
    => lock = None

\* C16 amended: a call that is suspended on the handshake or on a frame write
\* does not itself hold the lock; whoever holds the lock is at a store, take
\* or restore step, which has no suspension point, and its next step releases
\* the lock.
C16_NoLockAcrossAwait ==
    /\ [](\A p \in Callers :
            pc[p] \in {"c_handshake", "s_write", "x_write"} => lock # p)
    /\ [](lock # None => pc[lock] \in {"c_store", "s_take", "s_restore", "x_take"})
    /\ [][\A p \in Callers : (lock = p /\ pc'[p] # pc[p]) => lock' = None]_vars

\* a send is suspended on its write while a connect issued after the send
\* took the half holds the lock at its store step
C16_Witness ==
    \E p \in Callers, q \in Callers :
        /\ pc[p] = "s_write"
        /\ pc[q] = "c_store"
        /\ lock = q
        /\ cur[q] \in calls[cur[p]].conc
        /\ calls[cur[q]].occ = None

\* the connect that succeeded last, when the connects ran one after another
LastConnect == CHOOSE c \in Connects :
                  calls[c].res = "Ok" /\ \A d \in Connects : calls[d].res = "Ok" => d <= c

\* C17: when no call is in flight and the successful connects did not overlap
\* one another, the slot is empty or holds the half of the connect that
\* succeeded last.
C17_SlotHoldsNewestHalf ==
    ( /\ InFlight = {}
      /\ \E c \in Connects : calls[c].res = "Ok"
      /\ \A c \in Connects, d \in Connects : d \notin calls[c].conc )
    => sender \in {None, calls[LastConnect].half}

\* C18: in a run with no close call, a send that was issued while the slot
\* held a send-half (so on an established connection) does not fail with
\* NotConnected, also when another send is in flight; if it returns Ok its
\* frame was written.
C18_NotConnectedOnlyWithoutConnection ==
    \A s \in Sends :
        ( /\ Closes = {}
          /\ calls[s].occ # None
          /\ Done(s) )
        => (calls[s].res # "NotConnected" /\ (calls[s].res = "Ok" => WroteFrame(s)))

\* C19: among the events of one connection the close and error events number
\* at most one, and such an event is the connection's last event; a step of a
\* forwarding task leaves the slot, the lock, every call's local half and
\* every call's position and record unchanged.
C19_OneTerminalEvent ==
    /\ [](\A h \in Halves :
            LET es == EventsOf(h)
                term == {i \in 1..Len(es) : es[i].name \in {"qwen-ws-close", "qwen-ws-error"}}
            IN /\ Cardinality(term) <= 1
               /\ \A i \in term : i = Len(es))
    /\ [][(inbox' # inbox) => UNCHANGED <<sender, lock, held, pc, calls>>]_vars

\* a forwarding task emitted a message and then its close event and has
\* ended, while its connection's send-half was checked out of the slot by a
\* send and the lock was held by another call
C19_Witness ==
    \E h \in Halves, p \in Callers :
        /\ [i \in 1..Len(EventsOf(h)) |-> EventsOf(h)[i].name]
             = <<"qwen-ws-message", "qwen-ws-close">>
        /\ fwd[h] = "done"
        /\ Len(inbox[h]) = 2
        /\ held[p] = h /\ pc[p] = "s_write"
        /\ lock \notin {None, p}

\* C20: a datagram that decodes to a message addressed to MuteSelf whose
\* first argument is not a boolean, or which has no argument, emits no event
\* and leaves every receive loop running.
C20_NonBoolMuteSelfIgnored ==
    [][( /\ Len(received') = Len(received) + 1
         /\ LET d == received'[Len(received')] IN
              /\ d.head = MuteSelfAddr
              /\ decode_udp(d).ok
              /\ (d.tags = <<>> \/ d.tags[1] \notin {"T", "F"}) )
       => /\ mute' = mute
          /\ \A t \in 1..Len(threads) : threads[t] = "loop" => threads'[t] = "loop"]_vars

====
